---- MODULE Spec2Model ----
(***************************************************************************)
(* A state-machine model of the SeedAndPath form step of the account       *)
(* import wizard (packages/extension-ui/src/Popup/ImportSeed/              *)
(* SeedAndPath.tsx).  The component's useState cells and the `type` prop   *)
(* are the state; every user event is one action that includes the         *)
(* re-render and the run of the validation effect the event causes; every  *)
(* outstanding validateSeed promise is a record in `inflight` that carries *)
(* the values its closure captured, and settles in a separate step.        *)
(***************************************************************************)
EXTENDS Naturals, Sequences, FiniteSets, TLC

VARIABLES
    phase,      \* "init" (rendered, effects not yet run), "mounted", "unmounted"
    address,    \* useState('')                       : string
    seed,       \* useState<string | null>(null)      : Null or Some(string)
    path,       \* useState<string | null>(null)      : Null or Some(string)
    advanced,   \* useState(false)
    error,      \* useState('')                       : string
    genesis,    \* useState('')                       : string
    type,       \* the `type` prop, owned by the parent
    account,    \* the last argument of onAccountChange (the parent's candidate)
    inflight,   \* the validateSeed promises that have not settled yet
    issued,     \* how many validateSeed calls have been made so far
    latest,     \* the validateSeed call made last: Null or Some(call)
    completed,  \* the round-trip that settled last: Null or Some([call, ok])
    fx          \* the calls made through the boundary during the last step

vars == <<phase, address, seed, path, advanced, error, genesis, type,
          account, inflight, issued, latest, completed, fx>>

\* The state cells of the component itself (what a setter can change).
formState == <<address, seed, path, advanced, error, genesis>>

----------------------------------------------------------------------------
\* Bounds of the model.

\* At most this many validateSeed calls are issued in one behaviour.
MaxCalls == 2

----------------------------------------------------------------------------
\* Values.

\* `string | null`: null is the empty tuple, a string s is <<s>>.
Null == <<>>
Some(v) == <<v>>

\* JavaScript truthiness of a `string | null` (used by !seed, seed || '', path ? :).
Truthy(x) == x # Null /\ x[1] # ""

\* `x || ''`
OrEmpty(x) == IF Truthy(x) THEN x[1] ELSE ""

keypairTypes == {"ed25519", "sr25519", "ecdsa"}

\* The algorithm the parent starts with.
DEFAULT_TYPE == "sr25519"

\* What the user can type or pick.
SeedInputs == {"", "ok", "bad"}
PathInputs == {"", "//0"}
GenesisInputs == {"", "0xkusama"}
TypeInputs == {"ecdsa", "rsa"}

\* Variant: recognises no algorithm name (C8 depends on isKeypairType).
isKeypairTypeNever(value) == FALSE

isKeypairType(value) == value \in keypairTypes

\* Variant: the derivation path is left out of the secret phrase.
SuriNoPath(s, p) == OrEmpty(s)

\* const suri = `${seed || ''}${path || ''}`
Suri(s, p) == OrEmpty(s) \o OrEmpty(p)

----------------------------------------------------------------------------
\* The external collaborators.

\* The validation service: a deterministic function of (suri, type).  It
\* accepts exactly the secret phrases below and derives one address per
\* accepted (suri, type) pair.
ValidSuris == {"ok", "ok//0"}

validateSeedOk(suri, ty) == suri \in ValidSuris

validatedAccount(suri, ty) ==
    [address |-> "5" \o suri \o ":" \o ty, suri |-> suri]

\* The translation function, in the default language.
t(key) == key

\* objectSpread({}, a, b): the fields of a, overridden and extended by those of b.
objectSpread(a, b) ==
    [k \in (DOMAIN a) \cup (DOMAIN b) |-> IF k \in DOMAIN b THEN b[k] ELSE a[k]]

----------------------------------------------------------------------------
\* The calls made during one step, per callback.
NoFx == [onAccountChange |-> <<>>, onTypeChange |-> <<>>, validateSeed |-> <<>>]

\* The closure of one validateSeed call: its arguments and the values of the
\* render that ran the effect (genesis, type and path are read in then/catch).
Call(id, s, p, g, ty) ==
    [id |-> id, suri |-> Suri(s, p), type |-> ty, genesis |-> g, path |-> p]

\* Variant: the effect without its empty-seed short-circuit (C1 depends on it).
EffectAlwaysValidates(s, p, g, ty, typeCalls) ==
    /\ issued < MaxCalls
    /\ issued' = issued + 1
    /\ inflight' = inflight \cup {Call(issued + 1, s, p, g, ty)}
    /\ latest' = Some(Call(issued + 1, s, p, g, ty))
    /\ account' = account
    /\ fx' = [NoFx EXCEPT !.onTypeChange = typeCalls,
                          !.validateSeed = <<[suri |-> Suri(s, p), type |-> ty]>>]

\* The body of the validation effect, run with the values (s, p, g, ty) of
\* the render that scheduled it; typeCalls are the onTypeChange calls the
\* handler made before the re-render.  Handlers read nothing but the values
\* their closure captured, so a handler together with the commit and the
\* effect run it causes is one step.
Effect(s, p, g, ty, typeCalls) ==
    IF ~Truthy(s)
    THEN /\ account' = Null
         /\ UNCHANGED <<inflight, issued, latest>>
         /\ fx' = [NoFx EXCEPT !.onAccountChange = <<Null>>,
                               !.onTypeChange = typeCalls]
    ELSE /\ issued < MaxCalls
         /\ issued' = issued + 1
         /\ inflight' = inflight \cup {Call(issued + 1, s, p, g, ty)}
         /\ latest' = Some(Call(issued + 1, s, p, g, ty))
         /\ account' = account
         /\ fx' = [NoFx EXCEPT !.onTypeChange = typeCalls,
                               !.validateSeed = <<[suri |-> Suri(s, p), type |-> ty]>>]

\* A handler that caused no re-render: nothing but its own calls happened.
NoEffect(typeCalls) ==
    /\ UNCHANGED <<account, inflight, issued, latest>>
    /\ fx' = [NoFx EXCEPT !.onTypeChange = typeCalls]

----------------------------------------------------------------------------
Init ==
    /\ phase = "init"
    /\ address = ""
    /\ seed = Null
    /\ path = Null
    /\ advanced = FALSE
    /\ error = ""
    /\ genesis = ""
    /\ type = DEFAULT_TYPE
    /\ account = Null
    /\ inflight = {}
    /\ issued = 0
    /\ latest = Null
    /\ completed = Null
    /\ fx = NoFx

\* The first commit: the effect runs once with the initial values.
Mount ==
    /\ phase = "init"
    /\ phase' = "mounted"
    /\ Effect(seed, path, genesis, type, <<>>)
    /\ UNCHANGED <<formState, type, completed>>

\* The component is torn down; outstanding promises stay outstanding.
Unmount ==
    /\ phase = "mounted"
    /\ phase' = "unmounted"
    /\ fx' = NoFx
    /\ UNCHANGED <<formState, type, account, inflight, issued, latest, completed>>

\* <TextAreaWithLabel onChange={setSeed} value={seed || ''}>: the text area
\* reports a text that differs from the one it shows, so every call changes
\* seed and the commit runs the effect.
setSeed(v) ==
    /\ phase = "mounted"
    /\ v # OrEmpty(seed)
    /\ seed' = Some(v)
    /\ Effect(seed', path, genesis, type, <<>>)
    /\ UNCHANGED <<phase, address, path, advanced, error, genesis, type, completed>>

\* <InputWithLabel onChange={setPath} value={path || ''}>, rendered in
\* advanced mode only
setPath(v) ==
    /\ phase = "mounted"
    /\ advanced
    /\ v # OrEmpty(path)
    /\ path' = Some(v)
    /\ Effect(seed, path', genesis, type, <<>>)
    /\ UNCHANGED <<phase, address, seed, advanced, error, genesis, type, completed>>

\* <Dropdown onChange={setGenesis}>: setting the value genesis already has
\* causes no re-render.
setGenesis(v) ==
    /\ phase = "mounted"
    /\ genesis' = v
    /\ IF genesis' # genesis
       THEN Effect(seed, path, genesis', type, <<>>)
       ELSE NoEffect(<<>>)
    /\ UNCHANGED <<phase, address, seed, path, advanced, error, type, completed>>

\* Variant: the toggle also clears the error (C7 depends on the toggle
\* touching advanced alone).
_onToggleAdvancedAndClear ==
    /\ phase = "mounted"
    /\ advanced' = ~advanced
    /\ error' = ""
    /\ NoEffect(<<>>)
    /\ UNCHANGED <<phase, address, seed, path, genesis, type, completed>>

_onToggleAdvanced ==
    /\ phase = "mounted"
    /\ advanced' = ~advanced
    /\ NoEffect(<<>>)
    /\ UNCHANGED <<phase, address, seed, path, error, genesis, type, completed>>

\* <Dropdown onChange={_onTypeChange}>, rendered in advanced mode only.  The
\* parent answers onTypeChange(value) by passing value down as the new `type`.
_onTypeChange(value) ==
    /\ phase = "mounted"
    /\ advanced
    /\ IF isKeypairType(value)
       THEN /\ type' = value
            /\ IF type' # type
               THEN Effect(seed, path, genesis, type', <<value>>)
               ELSE NoEffect(<<value>>)
            /\ UNCHANGED error
       ELSE /\ error' = ""
            /\ NoEffect(<<>>)
            /\ UNCHANGED type
    /\ UNCHANGED <<phase, address, seed, path, advanced, genesis, completed>>

\* Variant: the success handler without setError('') (C10 depends on it).
ThenStateKeepsError(c) ==
    IF phase = "mounted"
    THEN /\ error' = error
         /\ address' = validatedAccount(c.suri, c.type).address
    ELSE UNCHANGED <<error, address>>

\* What the setters of a settling promise do: they change the state of a
\* mounted component and nothing of one that is gone.
ThenState(c) ==
    IF phase = "mounted"
    THEN /\ error' = ""
         /\ address' = validatedAccount(c.suri, c.type).address
    ELSE UNCHANGED <<error, address>>

\* Variant: one message whatever the path (C3 depends on the choice).
CatchErrorSeedOnly(p) == t("Invalid mnemonic seed")

CatchError(p) ==
    IF Truthy(p)
    THEN t("Invalid mnemonic seed or derivation path")
    ELSE t("Invalid mnemonic seed")

\* Variant: the failure handler without setAddress('') (C16 depends on it).
CatchStateKeepsAddress(c) ==
    IF phase = "mounted"
    THEN /\ address' = address
         /\ error' = CatchError(c.path)
    ELSE UNCHANGED <<error, address>>

CatchState(c) ==
    IF phase = "mounted"
    THEN /\ address' = ""
         /\ error' = CatchError(c.path)
    ELSE UNCHANGED <<error, address>>

\* validateSeed(suri, type).then(...)
validateSeedThen(c) ==
    /\ phase # "init"
    /\ c \in inflight
    /\ validateSeedOk(c.suri, c.type)
    /\ inflight' = inflight \ {c}
    /\ ThenState(c)
    /\ account' = Some(objectSpread(validatedAccount(c.suri, c.type),
                                    [genesis |-> c.genesis, type |-> c.type]))
    /\ completed' = Some([call |-> c, ok |-> TRUE])
    /\ fx' = [NoFx EXCEPT !.onAccountChange = <<account'>>]
    /\ UNCHANGED <<phase, seed, path, advanced, genesis, type, issued, latest>>

\* Variant: the failure handler submits the rejected phrase again (C12
\* depends on a rejection making no call).
validateSeedCatchRetries(c) ==
    /\ phase # "init"
    /\ c \in inflight
    /\ ~validateSeedOk(c.suri, c.type)
    /\ issued < MaxCalls
    /\ issued' = issued + 1
    /\ inflight' = (inflight \ {c}) \cup {[c EXCEPT !.id = issued + 1]}
    /\ latest' = Some([c EXCEPT !.id = issued + 1])
    /\ CatchState(c)
    /\ account' = Null
    /\ completed' = Some([call |-> c, ok |-> FALSE])
    /\ fx' = [NoFx EXCEPT !.onAccountChange = <<Null>>,
                          !.validateSeed = <<[suri |-> c.suri, type |-> c.type]>>]
    /\ UNCHANGED <<phase, seed, path, advanced, genesis, type>>

\* Variant: the failure handler without onAccountChange(null) (C17 depends
\* on it).
validateSeedCatchKeepsAccount(c) ==
    /\ phase # "init"
    /\ c \in inflight
    /\ ~validateSeedOk(c.suri, c.type)
    /\ inflight' = inflight \ {c}
    /\ CatchState(c)
    /\ account' = account
    /\ completed' = Some([call |-> c, ok |-> FALSE])
    /\ fx' = NoFx
    /\ UNCHANGED <<phase, seed, path, advanced, genesis, type, issued, latest>>

\* validateSeed(suri, type).catch(...)
validateSeedCatch(c) ==
    /\ phase # "init"
    /\ c \in inflight
    /\ ~validateSeedOk(c.suri, c.type)
    /\ inflight' = inflight \ {c}
    /\ CatchState(c)
    /\ account' = Null
    /\ completed' = Some([call |-> c, ok |-> FALSE])
    /\ fx' = [NoFx EXCEPT !.onAccountChange = <<Null>>]
    /\ UNCHANGED <<phase, seed, path, advanced, genesis, type, issued, latest>>

Next ==
    \/ Mount
    \/ Unmount
    \/ \E v \in SeedInputs : setSeed(v)
    \/ \E v \in PathInputs : setPath(v)
    \/ \E v \in GenesisInputs : setGenesis(v)
    \/ _onToggleAdvanced
    \/ \E value \in TypeInputs : _onTypeChange(value)
    \/ \E c \in inflight : validateSeedThen(c)
    \/ \E c \in inflight : validateSeedCatch(c)

Spec == Init /\ [][Next]_vars

----------------------------------------------------------------------------
\* The rendering.

\* Variant: the button ignores address (C6 depends on both operands).
isDisabledOnErrorOnly == error # ""

\* <NextStepButton isDisabled={!address || !!error}>
isDisabled == address = "" \/ error # ""

\* Variant: the word-count hint is shown whenever the seed is empty (C15
\* depends on the hint needing an error).
seedErrorShownOnEmptySeed == ~Truthy(seed)

\* {!!error && !seed && <Warning className='seedError'>}
seedErrorShown == error # "" /\ ~Truthy(seed)

\* {!!error && !!seed && <Warning isDanger>{error}</Warning>}
warningShown == error # "" /\ Truthy(seed)

----------------------------------------------------------------------------
\* Steps, told by what they change.

deps == <<genesis, seed, path, type>>

\* The validation effect ran in this step: the first commit, or a commit
\* that changed one of its dependencies.
EffectFired ==
    \/ phase = "init" /\ phase' = "mounted"
    \/ phase = "mounted" /\ deps' # deps

\* A validateSeed promise settled in this step, and how.
Settled == completed' # completed
SettledOk == Settled /\ completed'[1].ok
SettledFailed == Settled /\ ~completed'[1].ok

\* The account the validator returned in the round-trip that settled.
Returned(c) == validatedAccount(c.suri, c.type)

----------------------------------------------------------------------------
\* C1: every run of the validation effect with a null or empty seed calls
\* onAccountChange(null) and makes no validateSeed call; and every
\* validateSeed call is made with a non-empty seed.
C1_EmptySeedShortCircuit ==
    [][ /\ (EffectFired /\ ~Truthy(seed'))
            => /\ fx'.onAccountChange = <<Null>>
               /\ fx'.validateSeed = <<>>
               /\ account' = Null
               /\ UNCHANGED <<inflight, issued, latest>>
        /\ (fx'.validateSeed # <<>> \/ issued' # issued \/ inflight' \ inflight # {})
            => /\ seed' # Null
               /\ seed'[1] # ""
      ]_vars

\* The user has cleared a seed whose validation is still outstanding: the
\* effect ran on the empty seed and reported "no candidate".
C1_Witness ==
    /\ phase = "mounted"
    /\ seed = Some("")
    /\ inflight # {}
    /\ fx.onAccountChange = <<Null>>
    /\ fx.validateSeed = <<>>

\* C2 (as claimed): after the success handler of any call has run on the
\* mounted component, address is the returned address, error is empty and
\* the candidate passed to onAccountChange is the returned record merged
\* with the genesis and type selected at that moment.
C2_SuccessUsesCurrentSelections ==
    [][ (SettledOk /\ phase = "mounted")
            => /\ address' = Returned(completed'[1].call).address
               /\ error' = ""
               /\ fx'.onAccountChange =
                     << Some([address |-> Returned(completed'[1].call).address,
                              suri |-> Returned(completed'[1].call).suri,
                              genesis |-> genesis',
                              type |-> type']) >>
      ]_vars

\* C3: after the failure handler of any call has run, onAccountChange has
\* been called with null, and on the mounted component address is empty
\* and error is the "seed or derivation path" message when the call was
\* made with a non-empty path and the "seed" message when its path was
\* null or empty.
C3_FailureHandler ==
    [][ SettledFailed
            => /\ fx'.onAccountChange = <<Null>>
               /\ account' = Null
               /\ phase = "mounted"
                    => /\ address' = ""
                       /\ LET p == completed'[1].call.path
                          IN IF p # Null /\ p[1] # ""
                             THEN error' = "Invalid mnemonic seed or derivation path"
                             ELSE error' = "Invalid mnemonic seed"
      ]_vars

\* A call made with a derivation path has been rejected.
C3_Witness ==
    /\ phase = "mounted"
    /\ completed # Null
    /\ ~completed[1].ok
    /\ completed[1].call.path = Some("//0")
    /\ error = "Invalid mnemonic seed or derivation path"
    /\ address = ""
    /\ fx.onAccountChange = <<Null>>

\* C4 (as claimed): address is non-empty exactly when the round-trip that
\* settled last was made for the current seed + path and type and succeeded.
C4_AddressIffCurrentRoundTripSucceeded ==
    phase = "mounted"
        => (address # ""
              <=> /\ completed # Null
                  /\ completed[1].ok
                  /\ completed[1].call.suri = Suri(seed, path)
                  /\ completed[1].call.type = type)

\* C5 (as claimed): while the seed is null or empty the Next button is
\* disabled and the parent holds no candidate.
C5_EmptySeedShowsNoAccount ==
    (phase = "mounted" /\ ~Truthy(seed)) => (isDisabled /\ account = Null)

\* C6: the Next button is enabled exactly when address is non-empty and
\* error is empty.
C6_ProceedEnabledIff ==
    (~isDisabled) <=> (address # "" /\ error = "")

\* A validated address with no error: the button is enabled.
C6_Witness ==
    /\ phase = "mounted"
    /\ address # ""
    /\ error = ""
    /\ ~isDisabled

\* C7: a step that flips advanced changes nothing else: not seed, path,
\* genesis, type, address or error, and it calls neither onAccountChange nor
\* onTypeChange nor validateSeed.
C7_ToggleAdvancedFrame ==
    [][ advanced' # advanced
            => /\ UNCHANGED <<seed, path, genesis, type, address, error>>
               /\ UNCHANGED <<account, inflight, issued, latest, completed, phase>>
               /\ fx' = NoFx
      ]_vars

\* Advanced mode has been switched on while an error was shown and a call
\* was outstanding.
C7_Witness ==
    /\ phase = "mounted"
    /\ advanced
    /\ error # ""
    /\ inflight # {}
    /\ fx = NoFx

\* C8: the algorithm-change handler, given one of the three algorithm names,
\* calls onTypeChange with it and leaves error, address, seed, path and
\* genesis unchanged; given any other string it calls nothing, makes error
\* empty and changes nothing else.
C8_TypeChangeHandler ==
    [][ \A value \in TypeInputs :
          _onTypeChange(value)
            => IF value \in {"ed25519", "sr25519", "ecdsa"}
               THEN /\ fx'.onTypeChange = <<value>>
                    /\ UNCHANGED <<error, address, seed, path, genesis>>
               ELSE /\ fx' = NoFx
                    /\ error' = ""
                    /\ UNCHANGED <<address, seed, path, genesis, advanced, type>>
                    /\ UNCHANGED <<account, inflight, issued, latest, completed, phase>>
      ]_vars

\* The handler has forwarded "ecdsa" while an error was shown, and the
\* error is still there.
C8_Witness ==
    /\ phase = "mounted"
    /\ fx.onTypeChange = <<"ecdsa">>
    /\ type = "ecdsa"
    /\ error # ""

\* C9 (as claimed): error is non-empty exactly when the round-trip that
\* settled last was made for the current inputs and failed, or the seed is
\* empty after the user has edited it.
C9_ErrorIffFailedOrEmptySeed ==
    phase = "mounted"
        => (error # ""
              <=> \/ /\ completed # Null
                     /\ ~completed[1].ok
                     /\ completed[1].call.suri = Suri(seed, path)
                     /\ completed[1].call.type = type
                  \/ seed = Some(""))

\* C10: no state is a dead end.  On the mounted component every change of
\* seed, path, genesis or type that leaves a non-empty seed makes exactly one
\* new validateSeed call, for the new inputs; the success of any call yields
\* an empty error, a non-empty address and an enabled Next button; and the
\* button stays enabled until another call settles.
C10_Recoverable ==
    [][ /\ (phase = "mounted" /\ deps' # deps /\ Truthy(seed'))
            => /\ issued' = issued + 1
               /\ \E c \in inflight' :
                    /\ inflight' = inflight \cup {c}
                    /\ c \notin inflight
                    /\ c.suri = OrEmpty(seed') \o OrEmpty(path')
                    /\ c.type = type'
        /\ (SettledOk /\ phase = "mounted")
            => (error' = "" /\ address' # "" /\ ~isDisabled')
        /\ (~Settled /\ phase = "mounted" /\ ~isDisabled) => ~isDisabled'
      ]_vars

\* After an edit the second call was made and it succeeded last: no error
\* is shown and the button is enabled.
C10_Witness ==
    /\ phase = "mounted"
    /\ issued = 2
    /\ completed # Null
    /\ completed[1].ok
    /\ completed[1].call.id = 2
    /\ inflight = {}
    /\ error = ""
    /\ address # ""
    /\ ~isDisabled

\* What a call leaves behind when its handler runs on the mounted component.
ResultOf(c) ==
    IF validateSeedOk(c.suri, c.type)
    THEN [address |-> Returned(c).address,
          error |-> "",
          account |-> Some([address |-> Returned(c).address,
                             suri |-> Returned(c).suri,
                             genesis |-> c.genesis,
                             type |-> c.type])]
    ELSE [address |-> "",
          error |-> IF c.path # Null /\ c.path[1] # ""
                    THEN "Invalid mnemonic seed or derivation path"
                    ELSE "Invalid mnemonic seed",
          account |-> Null]

\* C11 (as claimed): when the last outstanding call settles, address, error
\* and the candidate held by the parent are those of the call that was made
\* last, whatever the order in which the calls settled.
C11_LatestCallAuthoritative ==
    [][ (Settled /\ phase = "mounted" /\ inflight' = {})
            => /\ address' = ResultOf(latest'[1]).address
               /\ error' = ResultOf(latest'[1]).error
               /\ account' = ResultOf(latest'[1]).account
      ]_vars

\* C12: validateSeed calls come from input changes alone, one per change.  A
\* step that makes a call is a change of seed, path, genesis or type on the
\* mounted component and no settlement; such a change with a non-empty seed
\* makes exactly one call; a settlement, success or failure, makes none.
C12_OneCallPerChange ==
    [][ /\ (fx'.validateSeed # <<>> \/ issued' # issued \/ inflight' \ inflight # {})
            => (phase = "mounted" /\ deps' # deps /\ ~Settled)
        /\ (phase = "mounted" /\ deps' # deps /\ Truthy(seed'))
            => /\ Len(fx'.validateSeed) = 1
               /\ issued' = issued + 1
               /\ Cardinality(inflight' \ inflight) = 1
               /\ inflight \subseteq inflight'
        /\ Settled
            => /\ fx'.validateSeed = <<>>
               /\ issued' = issued
               /\ inflight' \subseteq inflight
               /\ Cardinality(inflight \ inflight') = 1
      ]_vars

\* The only call made was rejected and nothing was submitted again.
C12_Witness ==
    /\ phase = "mounted"
    /\ issued = 1
    /\ inflight = {}
    /\ completed # Null
    /\ ~completed[1].ok
    /\ fx.validateSeed = <<>>
    /\ error # ""

\* C13 (as claimed): a call that settles after the component was torn down
\* is ignored: address and error stay as they were and onAccountChange is
\* not called.
C13_LateResolutionIgnored ==
    [][ (Settled /\ phase = "unmounted")
            => /\ UNCHANGED <<address, error, account>>
               /\ fx'.onAccountChange = <<>>
      ]_vars

\* C14: every validateSeed call is made with exactly two arguments: the
\* seed followed by the derivation path as they are in the render that makes
\* the call (nothing for a null path), and the type of that render; genesis
\* is no argument.  The promise carries the same two values.
C14_SuriAndType ==
    [][ fx'.validateSeed # <<>>
            => /\ fx'.validateSeed =
                    << [suri |-> seed'[1] \o (IF path' = Null THEN "" ELSE path'[1]),
                        type |-> type'] >>
               /\ latest' # Null
               /\ latest'[1] \in inflight'
               /\ latest'[1].suri = fx'.validateSeed[1].suri
               /\ latest'[1].type = fx'.validateSeed[1].type
      ]_vars

\* A call was made for seed "ok" with path "//0" and type ecdsa while the
\* network "0xkusama" was selected.
C14_Witness ==
    /\ phase = "mounted"
    /\ seed = Some("ok")
    /\ path = Some("//0")
    /\ genesis = "0xkusama"
    /\ fx.validateSeed = <<[suri |-> "ok//0", type |-> "ecdsa"]>>

\* C15: on the mounted component the word-count hint is shown exactly when
\* error is non-empty and the seed is null or empty, the banner exactly when
\* error is non-empty and the seed is non-empty, never both; and the hint is
\* shown only after a validation has failed (the call that settled last was
\* rejected), so not on the first render.
C15_HintAndBanner ==
    phase # "unmounted"
        => /\ ~(seedErrorShown /\ warningShown)
           /\ seedErrorShown <=> (error # "" /\ (seed = Null \/ seed[1] = ""))
           /\ warningShown <=> (error # "" /\ seed # Null /\ seed[1] # "")
           /\ seedErrorShown => (completed # Null /\ ~completed[1].ok)
           /\ phase = "init" => ~seedErrorShown

\* A rejected seed was cleared: the hint is shown, the banner is not.
C15_Witness ==
    /\ phase = "mounted"
    /\ seed = Some("")
    /\ error # ""
    /\ seedErrorShown
    /\ ~warningShown

\* C16: error and address are never both non-empty, so the Next button is
\* enabled exactly when address is non-empty.
C16_ErrorExcludesAddress ==
    /\ error # "" => address = ""
    /\ (~isDisabled) <=> address # ""

\* Two calls overlapped and the earlier one settled last, by a rejection:
\* an error is shown and no address is left.
C16_Witness ==
    /\ phase = "mounted"
    /\ issued = 2
    /\ inflight = {}
    /\ completed # Null
    /\ ~completed[1].ok
    /\ completed[1].call.id = 1
    /\ error # ""
    /\ address = ""

\* C17: while the component is mounted, if the parent holds a candidate then
\* address is that candidate's address and error is empty.
C17_CandidateMatchesForm ==
    (phase = "mounted" /\ account # Null)
        => (address = account[1].address /\ error = "")

\* Two calls were made and a success settled last: the parent holds its
\* candidate, and the form shows that address and no error.
C17_Witness ==
    /\ phase = "mounted"
    /\ account # Null
    /\ issued = 2
    /\ completed # Null
    /\ completed[1].ok
    /\ address = account[1].address
    /\ error = ""
    /\ inflight = {}

====
